---- MODULE Spec2Model ----
(***************************************************************************)
(* Probability distribution tables of sktime.proba: construction of the    *)
(* tensorflow-probability backed Normal (tfd.py) and of the native Normal  *)
(* (normal.py), and label-based (loc) / position-based (iloc) selection    *)
(* through _Indexer.__getitem__ (base.py).                                 *)
(*                                                                         *)
(* normal.py imports BaseDistribution and tfd.py imports                   *)
(* _BaseTFDistribution from sktime.proba.base; base.py defines these       *)
(* classes under the names BaseProba and _BaseTFProba, and the model       *)
(* resolves the imports to them.                                           *)
(*                                                                         *)
(* Values.  A numpy array is [shape, data]: shape is <<>>, <<n>> or        *)
(* <<n, m>>, data the entries in row-major order.  A python scalar or      *)
(* (nested) list given as a parameter is written as the array np.array     *)
(* makes of it.  A pandas Index is the sequence of its labels; labels are  *)
(* integers.  A selector is [t, v]: t = "None" (python None), "slice"      *)
(* (v = <<>> is the open slice `:`), "list" (v the entries) or "scalar"    *)
(* (v = <<x>>).                                                            *)
(***************************************************************************)
EXTENDS Integers, Sequences, FiniteSets, TLC

VARIABLES
    pc,         \* the caller: "idle" (holding ref) or "returned" (a call has ended)
    ref,        \* the table the caller holds and calls on (self), before the call
    refAfter,   \* the same object after the call
    call,       \* the last call: [op, key, args]
    ret         \* what the call returned or raised

vars == <<pc, ref, refAfter, call, ret>>

\* ------------------------------------------------------------------ bounds
\* longest list of labels / positions used as a row or column selector
MaxKeyLen == 2
\* longest axis of a table a selection may return (a label-based selection
\* on repeated labels returns more entries than it was given labels)
MaxAxisLen == 2
\* largest n_samples of a call of sample
MaxSamples == 2

\* ------------------------------------------------------------- numpy arrays
Scalar(x) == [shape |-> <<>>, data |-> <<x>>]
Vec(s) == [shape |-> <<Len(s)>>, data |-> s]
Mat(nr, nc, s) == [shape |-> <<nr, nc>>, data |-> s]

ndim(arr) == Len(arr.shape)

\* python's range(n) as a sequence 0..n-1 (pd.RangeIndex(n))
RangeIndex(n) == [i \in 1..n |-> i - 1]

\* a position p is valid on an axis of length n when -n <= p < n
InBounds(p, n) == p >= -n /\ p < n

\* the 0-based offset a valid (possibly negative) position denotes
Wrap(p, n) == IF p < 0 THEN p + n ELSE p

\* the positions a slice start:stop (both given, not negative) selects on an
\* axis of length n, as a list selector
SlicePositions(idx, n) ==
    LET stop == IF idx.v[2] < n THEN idx.v[2] ELSE n
        len == IF stop > idx.v[1] THEN stop - idx.v[1] ELSE 0
    IN [t |-> "list", v |-> [i \in 1..len |-> idx.v[1] + i - 1]]

\* arr[idx] on axis 0, idx a list of positions, a scalar position or a
\* slice (the open slice, or start:stop).  Returns [exc, arr].
IndexAxis0(arr, idx) ==
    IF ndim(arr) = 0
    THEN [exc |-> "IndexError", arr |-> arr]
    ELSE IF idx.t = "slice" /\ idx.v = <<>>
    THEN [exc |-> "none", arr |-> arr]
    ELSE LET n == arr.shape[1]
             w == IF ndim(arr) = 2 THEN arr.shape[2] ELSE 1
             sel == IF idx.t = "slice" THEN SlicePositions(idx, n) ELSE idx
             row(p) == [j \in 1..w |-> arr.data[Wrap(p, n) * w + j]]
         IN IF \E k \in 1..Len(sel.v) : ~InBounds(sel.v[k], n)
            THEN [exc |-> "IndexError", arr |-> arr]
            ELSE IF sel.t = "scalar"
                 THEN [exc |-> "none",
                       arr |-> [shape |-> Tail(arr.shape), data |-> row(sel.v[1])]]
                 ELSE [exc |-> "none",
                       arr |-> [shape |-> <<Len(sel.v)>> \o Tail(arr.shape),
                                data |-> [q \in 1..(Len(sel.v) * w) |->
                                            row(sel.v[((q - 1) \div w) + 1])[((q - 1) % w) + 1]]]]

\* arr[:, idx], idx a list of positions, a scalar position or a slice (the
\* open slice, or start:stop).  Returns [exc, arr].
IndexAxis1(arr, idx) ==
    IF ndim(arr) < 2
    THEN [exc |-> "IndexError", arr |-> arr]
    ELSE IF idx.t = "slice" /\ idx.v = <<>>
    THEN [exc |-> "none", arr |-> arr]
    ELSE LET n == arr.shape[1]
             m == arr.shape[2]
             sel == IF idx.t = "slice" THEN SlicePositions(idx, m) ELSE idx
             c == Len(sel.v)
         IN IF \E k \in 1..c : ~InBounds(sel.v[k], m)
            THEN [exc |-> "IndexError", arr |-> arr]
            ELSE IF sel.t = "scalar"
                 THEN [exc |-> "none",
                       arr |-> [shape |-> <<n>>,
                                data |-> [i \in 1..n |->
                                            arr.data[(i - 1) * m + Wrap(sel.v[1], m) + 1]]]]
                 ELSE [exc |-> "none",
                       arr |-> [shape |-> <<n, c>>,
                                data |-> [q \in 1..(n * c) |->
                                            arr.data[((q - 1) \div c) * m
                                                     + Wrap(sel.v[((q - 1) % c) + 1], m) + 1]]]]

\* the broadcast of two shapes under numpy's rules (trailing axes aligned),
\* [exc, shape]
BroadcastShapes(s1, s2) ==
    LET r == IF Len(s1) > Len(s2) THEN Len(s1) ELSE Len(s2)
        d(s, k) == IF k > r - Len(s) THEN s[k - (r - Len(s))] ELSE 1
        ok(k) == d(s1, k) = d(s2, k) \/ d(s1, k) = 1 \/ d(s2, k) = 1
    IN IF \A k \in 1..r : ok(k)
       THEN [exc |-> "none",
             shape |-> [k \in 1..r |-> IF d(s1, k) = 1 THEN d(s2, k) ELSE d(s1, k)]]
       ELSE [exc |-> "ValueError", shape |-> <<>>]

\* np.broadcast_to(arr, shape) for a shape arr broadcasts to (rank <= 2)
BroadcastTo(arr, shape) ==
    LET r == Len(shape)
        off == r - ndim(arr)
        size == IF r = 0 THEN 1 ELSE IF r = 1 THEN shape[1] ELSE shape[1] * shape[2]
        coord(q, k) == IF r = 1 THEN q - 1
                       ELSE IF k = 1 THEN (q - 1) \div shape[2] ELSE (q - 1) % shape[2]
        src(q) ==
            IF ndim(arr) = 0 THEN 1
            ELSE IF ndim(arr) = 1
                 THEN (IF arr.shape[1] = 1 THEN 0 ELSE coord(q, r)) + 1
                 ELSE (IF arr.shape[1] = 1 THEN 0 ELSE coord(q, 1)) * arr.shape[2]
                      + (IF arr.shape[2] = 1 THEN 0 ELSE coord(q, 2)) + 1
    IN [shape |-> shape, data |-> [q \in 1..size |-> arr.data[src(q)]]]

\* ------------------------------------------------------------ pandas Index
RECURSIVE Flatten(_)
Flatten(ss) == IF ss = <<>> THEN <<>> ELSE Head(ss) \o Flatten(Tail(ss))

RECURSIVE PositionsOf(_, _, _)
\* the 0-based positions of label x in idx from position k on, ascending
PositionsOf(idx, x, k) ==
    IF k > Len(idx) THEN <<>>
    ELSE (IF idx[k] = x THEN <<k - 1>> ELSE <<>>) \o PositionsOf(idx, x, k + 1)

\* Index.get_indexer_for(target): for each requested label its position
\* (every position when the label is repeated in the index), -1 for a label
\* the index does not hold; a target that is not list-like is a TypeError.
\* Returns [exc, idx] with idx a list selector.
get_indexer_for(idx, target) ==
    IF target.t # "list"
    THEN [exc |-> "TypeError", idx |-> target]
    ELSE [exc |-> "none",
          idx |-> [t |-> "list",
                   v |-> Flatten([k \in 1..Len(target.v) |->
                            IF PositionsOf(idx, target.v[k], 1) = <<>>
                            THEN <<-1>>
                            ELSE PositionsOf(idx, target.v[k], 1)])]]

\* take as a mask: the labels whose position is among the indices, each
\* once and in the order of the index
take_inorder(idx, subs) ==
    LET hit == {Wrap(subs.v[k], Len(idx)) + 1 : k \in 1..Len(subs.v)}
        kept[i \in 0..Len(idx)] ==
            IF i = 0 THEN <<>>
            ELSE kept[i - 1] \o (IF i \in hit THEN <<idx[i]>> ELSE <<>>)
    IN IF subs.t # "list"
       THEN [exc |-> "TypeError", idx |-> idx]
       ELSE IF \E k \in 1..Len(subs.v) : ~InBounds(subs.v[k], Len(idx))
            THEN [exc |-> "IndexError", idx |-> idx]
            ELSE [exc |-> "none", idx |-> kept[Len(idx)]]

\* Index.take(indices): the labels at the positions, negative positions
\* counting from the end; out of bounds is an IndexError, indices that are
\* not array-like a TypeError.  Returns [exc, idx].
take(idx, subs) ==
    IF subs.t # "list"
    THEN [exc |-> "TypeError", idx |-> idx]
    ELSE IF \E k \in 1..Len(subs.v) : ~InBounds(subs.v[k], Len(idx))
         THEN [exc |-> "IndexError", idx |-> idx]
         ELSE [exc |-> "none",
               idx |-> [k \in 1..Len(subs.v) |-> idx[Wrap(subs.v[k], Len(idx)) + 1]]]

\* ------------------------------------------------------------------ tables
None == [t |-> "None", v |-> <<>>]
List(s) == [t |-> "list", v |-> s]
IntKey(x) == [t |-> "scalar", v |-> <<x>>]
\* slice(None, None, None), written `:`
NoneSlice == [t |-> "slice", v |-> <<>>]
\* slice(start, stop, None), written `start:stop`
BoundedSlice(start, stop) == [t |-> "slice", v |-> <<start, stop>>]

\* the names _subset_params never subsets
reserved_names == {"validate_args", "allow_nan_stats", "name"}

\* distr.batch_shape: the broadcast of the parameters' shapes, [exc, shape]
batch_shape(parameters) == BroadcastShapes(parameters.loc.shape, parameters.scale.shape)

\* tfd.Normal(loc=loc, scale=scale) without the check of the shapes at
\* construction: the arguments are kept whatever their shapes
tfd_Normal_unchecked(loc, scale) ==
    [exc |-> "none",
     parameters |-> [loc |-> loc, scale |-> scale, validate_args |-> Scalar(0),
                     allow_nan_stats |-> Scalar(1), name |-> Scalar(0)]]

\* tfd.Normal(loc=loc, scale=scale): the constructor arguments are kept as
\* given in .parameters, the reserved ones at their defaults (False, True,
\* "Normal", written 0, 1, 0).  The constructor computes the batch shape
\* once and raises ValueError when loc and scale have no common shape.
\* Returns [exc, parameters].
tfd_Normal(loc, scale) ==
    LET parameters == [loc |-> loc, scale |-> scale, validate_args |-> Scalar(0),
                       allow_nan_stats |-> Scalar(1), name |-> Scalar(0)]
    IN [exc |-> batch_shape(parameters).exc, parameters |-> parameters]

\* no object: the value of ref before any table exists, and of a result
\* that is no table
NoTable == [cls |-> "none", index |-> <<>>, columns |-> <<>>, params |-> <<>>]

\* BaseProba.__init__ / _BaseTFProba.__init__: the object of class cls with
\* the labels and the parameters stored as given
BaseProba(cls, index, columns, params) ==
    [cls |-> cls, index |-> index, columns |-> columns, params |-> params]

\* BaseProba.shape
shape(self) == <<Len(self.index), Len(self.columns)>>

\* tfd.py Normal.__init__(mean, sd, index, columns): [exc, val]
tfd_Normal__init__(mean, sd, index, columns) ==
    LET distr == tfd_Normal(mean, sd)
        bs == batch_shape(distr.parameters)
        fail(e) == [exc |-> e, val |-> NoTable]
    IN IF distr.exc # "none" THEN fail(distr.exc)
       ELSE IF index.t = "None" /\ Len(bs.shape) < 1 THEN fail("IndexError")
       ELSE IF columns.t = "None" /\ Len(bs.shape) < 2 THEN fail("IndexError")
       ELSE [exc |-> "none",
             val |-> BaseProba("tfd.Normal",
                        IF index.t = "None" THEN RangeIndex(bs.shape[1]) ELSE index.v,
                        IF columns.t = "None" THEN RangeIndex(bs.shape[2]) ELSE columns.v,
                        distr.parameters)]

\* normal.py Normal._get_bc_params: np.broadcast_arrays(mu, sigma), [exc, mu, sigma]
_get_bc_params(mu, sigma) ==
    LET bs == BroadcastShapes(mu.shape, sigma.shape)
    IN IF bs.exc # "none"
       THEN [exc |-> bs.exc, mu |-> mu, sigma |-> sigma]
       ELSE [exc |-> "none", mu |-> BroadcastTo(mu, bs.shape),
             sigma |-> BroadcastTo(sigma, bs.shape)]

\* normal.py Normal.__init__(mu, sigma, index, columns): [exc, val]
Normal__init__(mu, sigma, index, columns) ==
    LET bc == _get_bc_params(mu, sigma)
        shp == bc.mu.shape
        fail(e) == [exc |-> e, val |-> NoTable]
    IN IF bc.exc # "none" THEN fail(bc.exc)
       ELSE IF index.t = "None" /\ Len(shp) < 1 THEN fail("IndexError")
       ELSE IF columns.t = "None" /\ Len(shp) < 2 THEN fail("IndexError")
       ELSE [exc |-> "none",
             val |-> BaseProba("normal.Normal",
                        IF index.t = "None" THEN RangeIndex(shp[1]) ELSE index.v,
                        IF columns.t = "None" THEN RangeIndex(shp[2]) ELSE columns.v,
                        [mu |-> mu, sigma |-> sigma, _mu |-> bc.mu, _sigma |-> bc.sigma])]


\* --------------------------------------------------------------- selection
\* the result of an indexer: a raised exception, or a returned value that
\* is a table (kind "table") or the NotImplemented constant
Raise(e, self) == [exc |-> e, kind |-> "none", val |-> NoTable, self |-> self]
Return(kind, val, self) == [exc |-> "none", kind |-> kind, val |-> val, self |-> self]

\* BaseProba._loc
BaseProba_loc(self, rowidx, colidx) == Return("NotImplemented", NoTable, self)

\* BaseProba._iloc
BaseProba_iloc(self, rowidx, colidx) == Return("NotImplemented", NoTable, self)

\* subset_param with a 1-D parameter taken to run along the columns: colidx
\* is applied to it when the rows are unconstrained
subset_param_cols1d(arr, rowidx, colidx) ==
    IF ndim(arr) = 1
    THEN IF rowidx.t # "None" THEN IndexAxis0(arr, rowidx)
         ELSE IF colidx.t # "None" THEN IndexAxis0(arr, colidx)
         ELSE [exc |-> "none", arr |-> arr]
    ELSE LET r == IF rowidx.t # "None" THEN IndexAxis0(arr, rowidx)
                  ELSE [exc |-> "none", arr |-> arr]
         IN IF r.exc # "none" \/ colidx.t = "None" THEN r
            ELSE IndexAxis1(r.arr, colidx)

\* the body of the loop of _subset_params for one parameter: the rows are
\* subset in both branches, the columns only when the parameter is not 1-D;
\* [exc, arr]
subset_param(arr, rowidx, colidx) ==
    LET r == IF rowidx.t # "None" THEN IndexAxis0(arr, rowidx)
             ELSE [exc |-> "none", arr |-> arr]
    IN IF ndim(arr) = 1 \/ r.exc # "none" \/ colidx.t = "None" THEN r
       ELSE IndexAxis1(r.arr, colidx)

\* _subset_params without the reserved names taken out: every parameter of
\* the wrapped distribution is subset
_subset_params_all(self, rowidx, colidx) ==
    LET paramnames == DOMAIN self.params
        sub == [param \in paramnames |-> subset_param(self.params[param], rowidx, colidx)]
    IN IF \E param \in paramnames : sub[param].exc # "none"
       THEN [exc |-> (CHOOSE e \in {sub[param].exc : param \in paramnames} : e # "none"),
             dict |-> sub]
       ELSE [exc |-> "none", dict |-> [param \in paramnames |-> sub[param].arr]]

\* _BaseTFProba._subset_params: every parameter of the wrapped distribution
\* that is not reserved, subset; [exc, dict]
_subset_params(self, rowidx, colidx) ==
    LET paramnames == (DOMAIN self.params) \ reserved_names
        sub == [param \in paramnames |-> subset_param(self.params[param], rowidx, colidx)]
    IN IF \E param \in paramnames : sub[param].exc # "none"
       THEN [exc |-> (CHOOSE e \in {sub[param].exc : param \in paramnames} : e # "none"),
             dict |-> sub]
       ELSE [exc |-> "none", dict |-> [param \in paramnames |-> sub[param].arr]]

\* subset_not_none of _BaseTFProba._iloc: [exc, idx]
subset_not_none(idx, subs) ==
    IF subs.t # "None" THEN take(idx, subs) ELSE [exc |-> "none", idx |-> idx]

\* _iloc subsetting in place: the labels of self are replaced by the subset
\* labels before the new table is returned
_BaseTFProba_iloc_inplace(self, rowidx, colidx) ==
    LET subset_params == _subset_params(self, rowidx, colidx)
        distr_subset == tfd_Normal(subset_params.dict.loc, subset_params.dict.scale)
        index_subset == subset_not_none(self.index, rowidx)
        columns_subset == subset_not_none(self.columns, colidx)
    IN IF subset_params.exc # "none" THEN Raise(subset_params.exc, self)
       ELSE IF distr_subset.exc # "none" THEN Raise(distr_subset.exc, self)
       ELSE IF index_subset.exc # "none" THEN Raise(index_subset.exc, self)
       ELSE IF columns_subset.exc # "none" THEN Raise(columns_subset.exc, self)
       ELSE Return("table",
                   BaseProba("_BaseTFProba", index_subset.idx, columns_subset.idx,
                             distr_subset.parameters),
                   [self EXCEPT !.index = index_subset.idx,
                                !.columns = columns_subset.idx])

\* _BaseTFProba._iloc
_BaseTFProba_iloc(self, rowidx, colidx) ==
    LET subset_params == _subset_params(self, rowidx, colidx)
        distr_subset == tfd_Normal(subset_params.dict.loc, subset_params.dict.scale)
        index_subset == subset_not_none(self.index, rowidx)
        columns_subset == subset_not_none(self.columns, colidx)
    IN IF subset_params.exc # "none" THEN Raise(subset_params.exc, self)
       ELSE IF distr_subset.exc # "none" THEN Raise(distr_subset.exc, self)
       ELSE IF index_subset.exc # "none" THEN Raise(index_subset.exc, self)
       ELSE IF columns_subset.exc # "none" THEN Raise(columns_subset.exc, self)
       ELSE Return("table",
                   BaseProba("_BaseTFProba", index_subset.idx, columns_subset.idx,
                             distr_subset.parameters),
                   self)

\* _loc with the else branch of the columns copied from the rows: an
\* unconstrained column axis gets the positions of the rows
_BaseTFProba_loc_copied(self, rowidx, colidx) ==
    LET row_iloc == IF rowidx.t # "None" THEN get_indexer_for(self.index, rowidx)
                    ELSE [exc |-> "none", idx |-> None]
        col_iloc == IF colidx.t # "None" THEN get_indexer_for(self.columns, colidx)
                    ELSE row_iloc
    IN IF row_iloc.exc # "none" THEN Raise(row_iloc.exc, self)
       ELSE IF col_iloc.exc # "none" THEN Raise(col_iloc.exc, self)
       ELSE _BaseTFProba_iloc(self, row_iloc.idx, col_iloc.idx)

\* _BaseTFProba._loc
_BaseTFProba_loc(self, rowidx, colidx) ==
    LET row_iloc == IF rowidx.t # "None" THEN get_indexer_for(self.index, rowidx)
                    ELSE [exc |-> "none", idx |-> None]
        col_iloc == IF colidx.t # "None" THEN get_indexer_for(self.columns, colidx)
                    ELSE [exc |-> "none", idx |-> None]
    IN IF row_iloc.exc # "none" THEN Raise(row_iloc.exc, self)
       ELSE IF col_iloc.exc # "none" THEN Raise(col_iloc.exc, self)
       ELSE _BaseTFProba_iloc(self, row_iloc.idx, col_iloc.idx)

\* getattr(ref, method): the method of ref's class, applied
getattr(self, method, rowidx, colidx) ==
    IF self.cls = "normal.Normal"
    THEN IF method = "_loc" THEN BaseProba_loc(self, rowidx, colidx)
         ELSE BaseProba_iloc(self, rowidx, colidx)
    ELSE IF method = "_loc" THEN _BaseTFProba_loc(self, rowidx, colidx)
         ELSE _BaseTFProba_iloc(self, rowidx, colidx)

\* is_noneslice as isinstance(obj, slice) alone: true of every slice
is_noneslice_anyslice(obj) == obj.t = "slice"

\* is_noneslice testing `is not None`: true of the bounded slices only
is_noneslice_bounded(obj) == obj.t = "slice" /\ obj.v # <<>>

\* is_noneslice of _Indexer.__getitem__
is_noneslice(obj) == obj.t = "slice" /\ obj.v = <<>>

\* __getitem__ without the test of len(key): a tuple key is read as
\* (key[0], key[1]) whatever its length
__getitem___noarity(self, method, key) ==
    LET rows == key.sel[1]
        cols == key.sel[2]
        branch ==
            IF key.tuple
            THEN IF is_noneslice(rows) /\ is_noneslice(cols) THEN <<"ref", None, None>>
                 ELSE IF is_noneslice(cols) THEN <<"indexer", rows, None>>
                 ELSE IF is_noneslice(rows) THEN <<"indexer", None, cols>>
                 ELSE <<"indexer", rows, cols>>
            ELSE <<"indexer", key.sel[1], None>>
    IN IF branch[1] = "ref"
       THEN [isref |-> TRUE, calls |-> 0, rowidx |-> None, colidx |-> None]
            @@ Return("table", self, self)
       ELSE [isref |-> FALSE, calls |-> 1, rowidx |-> branch[2], colidx |-> branch[3]]
            @@ getattr(self, method, branch[2], branch[3])

\* __getitem__ handing the open slice of a pair on to the indexer instead
\* of None
__getitem___slicethrough(self, method, key) ==
    LET rows == key.sel[1]
        cols == key.sel[2]
        branch ==
            IF key.tuple
            THEN IF Len(key.sel) # 2 THEN <<"arity", None, None>>
                 ELSE IF is_noneslice(rows) /\ is_noneslice(cols) THEN <<"ref", None, None>>
                 ELSE <<"indexer", rows, cols>>
            ELSE <<"indexer", key.sel[1], None>>
    IN IF branch[1] = "arity"
       THEN [isref |-> FALSE, calls |-> 0, rowidx |-> None, colidx |-> None]
            @@ Raise("ValueError", self)
       ELSE IF branch[1] = "ref"
       THEN [isref |-> TRUE, calls |-> 0, rowidx |-> None, colidx |-> None]
            @@ Return("table", self, self)
       ELSE [isref |-> FALSE, calls |-> 1, rowidx |-> branch[2], colidx |-> branch[3]]
            @@ getattr(self, method, branch[2], branch[3])

\* _Indexer.__getitem__ of the view _Indexer(ref, method).  key is
\* [tuple, sel]: a tuple key with its components, or a single key.
\* Returns [exc, kind, val, self, isref, calls, rowidx, colidx]: isref says
\* that the value returned is the object ref itself, calls counts the
\* invocations of the indexer, rowidx and colidx are the arguments it was
\* invoked with.
__getitem__(self, method, key) ==
    LET rows == key.sel[1]
        cols == key.sel[2]
        \* the branch taken: "arity", "ref", or "indexer" with its arguments
        branch ==
            IF key.tuple
            THEN IF Len(key.sel) # 2 THEN <<"arity", None, None>>
                 ELSE IF is_noneslice(rows) /\ is_noneslice(cols) THEN <<"ref", None, None>>
                 ELSE IF is_noneslice(cols) THEN <<"indexer", rows, None>>
                 ELSE IF is_noneslice(rows) THEN <<"indexer", None, cols>>
                 ELSE <<"indexer", rows, cols>>
            ELSE <<"indexer", key.sel[1], None>>
    IN IF branch[1] = "arity"
       THEN [isref |-> FALSE, calls |-> 0, rowidx |-> None, colidx |-> None]
            @@ Raise("ValueError", self)
       ELSE IF branch[1] = "ref"
       THEN [isref |-> TRUE, calls |-> 0, rowidx |-> None, colidx |-> None]
            @@ Return("table", self, self)
       ELSE [isref |-> FALSE, calls |-> 1, rowidx |-> branch[2], colidx |-> branch[3]]
            @@ getattr(self, method, branch[2], branch[3])

\* ------------------------------------------------- per-entry functions
\* pd.DataFrame(arr, index=index, columns=columns), by its labels; the
\* values (floating point) are not modelled.  The constructor raises
\* ValueError when the shape of arr is not (len(index), len(columns)).
\* Returns [exc, kind, val].
DataFrame(arrshape, index, columns) ==
    IF arrshape.exc # "none" \/ arrshape.shape # <<Len(index), Len(columns)>>
    THEN [exc |-> "ValueError", kind |-> "none", val |-> NoTable]
    ELSE [exc |-> "none", kind |-> "frame",
          val |-> [cls |-> "DataFrame", index |-> index, columns |-> columns,
                   params |-> <<>>]]

\* the array a per-entry function computes from x.values, d.mu and d.sigma
\* (d what self.loc[x.index, x.columns] returned), framed with the labels of
\* x: an object without the attributes mu and sigma is an AttributeError.
\* Returns [exc, kind, val, calls].
EntryWise(d, x) ==
    LET xshape == <<Len(x.index), Len(x.columns)>>
        bc1 == BroadcastShapes(xshape, d.val.params.mu.shape)
        bc2 == IF bc1.exc # "none" THEN bc1
               ELSE BroadcastShapes(bc1.shape, d.val.params.sigma.shape)
    IN [calls |-> d.calls] @@
       (IF d.exc # "none"
        THEN [exc |-> d.exc, kind |-> "none", val |-> NoTable]
        ELSE IF d.kind # "table" \/ d.val.cls # "normal.Normal"
        THEN [exc |-> "AttributeError", kind |-> "none", val |-> NoTable]
        ELSE DataFrame(bc2, x.index, x.columns))

\* the body shared by pdf, log_pdf, cdf and ppf of normal.py: the sub-table
\* d of self at the labels of the query frame x, then the array
PerEntry(self, x) ==
    EntryWise(__getitem__(self, "_loc",
                          [tuple |-> TRUE, sel |-> <<List(x.index), List(x.columns)>>]), x)

Normal_pdf(self, x) == PerEntry(self, x)

Normal_log_pdf(self, x) == PerEntry(self, x)

Normal_cdf(self, x) == PerEntry(self, x)

Normal_ppf(self, p) == PerEntry(self, p)

\* gen_unif of Normal.sample: a frame of uniform draws with the labels of self
gen_unif(self) == [index |-> self.index, columns |-> self.columns]

\* pd.concat(frames, keys=range(n)): the rows of the frames one after the
\* other, each row label paired with the key of its frame; no frame at all
\* is a ValueError
concat(frames, n) ==
    IF n = 0
    THEN [exc |-> "ValueError", kind |-> "none", val |-> NoTable]
    ELSE [exc |-> "none", kind |-> "frame",
          val |-> [cls |-> "DataFrame",
                   index |-> Flatten([k \in 1..n |->
                                [i \in 1..Len(frames[k].index) |->
                                    <<k - 1, frames[k].index[i]>>]]),
                   columns |-> frames[1].columns,
                   params |-> <<>>]]

\* the rest of Normal.sample, one being what self.ppf(gen_unif()) gives
\* (as many times as it is called): the frame itself for n_samples None,
\* else the n_samples frames stacked
Stack(one, n_samples) ==
    LET n == n_samples.v[1]
    IN IF n_samples.t = "None" THEN one
       ELSE IF n > 0 /\ one.exc # "none" THEN one
       ELSE [calls |-> n * one.calls] @@ concat([k \in 1..n |-> one.val], n)

\* Normal.sample(n_samples), n_samples None or an integer.
\* Returns [exc, kind, val, calls].
Normal_sample(self, n_samples) ==
    Stack(Normal_ppf(self, gen_unif(self)), n_samples)

\* ------------------------------------------------------------------ inputs
\* labels and positions a selector may name: two that every table of two
\* rows and two columns has, and one that is no label and no position of any
\* table
KeyVals == {0, 1}
MissingVals == {99}

\* the sequences over S of length at most n
SeqsUpTo(S, n) == UNION {[1..k -> S] : k \in 0..n}

\* a slice with both ends given that covers the whole of every axis tables
\* have here
WholeAxisSlice == BoundedSlice(0, MaxAxisLen)

Selectors ==
    {NoneSlice, WholeAxisSlice} \cup {IntKey(x) : x \in KeyVals \cup MissingVals}
    \cup {List(s) : s \in SeqsUpTo(KeyVals, MaxKeyLen)}
    \cup {List(<<x>>) : x \in MissingVals}

Keys ==
    {[tuple |-> FALSE, sel |-> <<k>>] : k \in Selectors}
    \cup {[tuple |-> TRUE, sel |-> <<r, c>>] : r \in Selectors, c \in Selectors}
    \cup {[tuple |-> TRUE, sel |-> <<NoneSlice, NoneSlice, NoneSlice>>],
          [tuple |-> TRUE, sel |-> <<List(<<0>>), List(<<0>>), NoneSlice>>]}

\* the parameters a table is constructed with: (mean, sd) of
\* test_proba_example, of get_test_params' second set, a 2-D mean with a
\* 1-D sd, and a pair of 1-D arrays with no common shape
ParamArgs ==
    {<<Mat(3, 2, <<0, 1, 2, 3, 4, 5>>), Scalar(1)>>,
     <<Scalar(0), Scalar(1)>>,
     <<Mat(2, 2, <<0, 1, 2, 3>>), Vec(<<1, 2>>)>>,
     <<Vec(<<0, 1>>), Vec(<<1, 2, 3>>)>>}

\* the labels a table is constructed with: (index, columns) both omitted, or
\* both given as in get_test_params (two row labels that are no range,
\* columns "a", "b" written 1, 0)
LabelArgs == {<<None, None>>, <<List(<<1, 5>>), List(<<1, 0>>)>>}

\* the query frames of the per-entry functions, by their labels: labels the
\* tables have, and labels they do not have
QueryLabels == {<<0>>, <<1, 0>>, <<99>>}
QueryFrames == {[index |-> i, columns |-> c] : i \in QueryLabels, c \in QueryLabels}

\* the values of n_samples
SampleSizes == {None} \cup {IntKey(n) : n \in 0..MaxSamples}

NoKey == [tuple |-> FALSE, sel |-> <<>>]
NoFrame == [index |-> <<>>, columns |-> <<>>]
NoArgs == [mean |-> Scalar(0), sd |-> Scalar(0), index |-> None, columns |-> None]
NoCall == [op |-> "none", key |-> NoKey, args |-> NoArgs, x |-> NoFrame, n_samples |-> None]
NoRet == [exc |-> "none", kind |-> "none", val |-> NoTable, isref |-> FALSE, calls |-> 0,
          rowidx |-> None, colidx |-> None]

\* ----------------------------------------------------------------- actions
Init ==
    /\ pc = "idle"
    /\ ref = NoTable
    /\ refAfter = NoTable
    /\ call = NoCall
    /\ ret = NoRet

\* Normal(mean, sd, index, columns) of tfd.py
Construct_tfd ==
    /\ pc = "idle"
    /\ \E p \in ParamArgs, l \in LabelArgs :
        LET r == tfd_Normal__init__(p[1], p[2], l[1], l[2])
        IN /\ pc' = "returned"
           /\ ref' = NoTable
           /\ refAfter' = NoTable
           /\ call' = [op |-> "tfd.Normal", key |-> NoKey,
                       args |-> [mean |-> p[1], sd |-> p[2], index |-> l[1],
                                 columns |-> l[2]],
                       x |-> NoFrame, n_samples |-> None]
           /\ ret' = [exc |-> r.exc, kind |-> IF r.exc = "none" THEN "table" ELSE "none",
                      val |-> r.val, isref |-> FALSE, calls |-> 0,
                      rowidx |-> None, colidx |-> None]

\* Normal(mu, sigma, index, columns) of normal.py
Construct_native ==
    /\ pc = "idle"
    /\ \E p \in ParamArgs, l \in LabelArgs :
        LET r == Normal__init__(p[1], p[2], l[1], l[2])
        IN /\ pc' = "returned"
           /\ ref' = NoTable
           /\ refAfter' = NoTable
           /\ call' = [op |-> "normal.Normal", key |-> NoKey,
                       args |-> [mean |-> p[1], sd |-> p[2], index |-> l[1],
                                 columns |-> l[2]],
                       x |-> NoFrame, n_samples |-> None]
           /\ ret' = [exc |-> r.exc, kind |-> IF r.exc = "none" THEN "table" ELSE "none",
                      val |-> r.val, isref |-> FALSE, calls |-> 0,
                      rowidx |-> None, colidx |-> None]

\* what a call ref.loc[key] / ref.iloc[key] leaves: the view
\* _Indexer(ref, method), created by the property, indexed with key
GetItem(op, method, key) ==
    \E r \in {__getitem__(ref, method, key)} :
       /\ Len(r.val.index) <= MaxAxisLen
       /\ Len(r.val.columns) <= MaxAxisLen
       /\ pc' = "returned"
       /\ ref' = ref
       /\ refAfter' = r.self
       /\ call' = [op |-> op, key |-> key, args |-> NoArgs, x |-> NoFrame,
                   n_samples |-> None]
       /\ ret' = [exc |-> r.exc, kind |-> r.kind, val |-> r.val,
                  isref |-> r.isref, calls |-> r.calls,
                  rowidx |-> r.rowidx, colidx |-> r.colidx]

\* BaseProba.loc, indexed
loc ==
    /\ pc = "idle"
    /\ ref.cls # "none"
    /\ \E key \in Keys : GetItem("loc", "_loc", key)

\* BaseProba.iloc, indexed
iloc ==
    /\ pc = "idle"
    /\ ref.cls # "none"
    /\ \E key \in Keys : GetItem("iloc", "_iloc", key)

\* what a call of a per-entry function of ref leaves; r is its result
Called(op, x, n_samples, r) ==
    /\ pc' = "returned"
    /\ ref' = ref
    /\ refAfter' = ref
    /\ call' = [op |-> op, key |-> NoKey, args |-> NoArgs, x |-> x,
                n_samples |-> n_samples]
    /\ ret' = [exc |-> r.exc, kind |-> r.kind, val |-> r.val, isref |-> FALSE,
               calls |-> r.calls, rowidx |-> None, colidx |-> None]

\* Normal.pdf(x) of normal.py
pdf ==
    /\ pc = "idle"
    /\ ref.cls = "normal.Normal"
    /\ \E x \in QueryFrames : Called("pdf", x, None, Normal_pdf(ref, x))

\* Normal.log_pdf(x) of normal.py
log_pdf ==
    /\ pc = "idle"
    /\ ref.cls = "normal.Normal"
    /\ \E x \in QueryFrames : Called("log_pdf", x, None, Normal_log_pdf(ref, x))

\* Normal.cdf(x) of normal.py
cdf ==
    /\ pc = "idle"
    /\ ref.cls = "normal.Normal"
    /\ \E x \in QueryFrames : Called("cdf", x, None, Normal_cdf(ref, x))

\* Normal.ppf(p) of normal.py
ppf ==
    /\ pc = "idle"
    /\ ref.cls = "normal.Normal"
    /\ \E p \in QueryFrames : Called("ppf", p, None, Normal_ppf(ref, p))

\* Normal.sample(n_samples) of normal.py
sample ==
    /\ pc = "idle"
    /\ ref.cls = "normal.Normal"
    /\ \E n \in SampleSizes : Called("sample", NoFrame, n, Normal_sample(ref, n))

\* the caller goes on with the table it got back
Keep ==
    /\ pc = "returned"
    /\ ret.kind = "table"
    /\ pc' = "idle"
    /\ ref' = ret.val
    /\ refAfter' = ret.val
    /\ call' = NoCall
    /\ ret' = NoRet

\* the caller goes on with the table it called on
Drop ==
    /\ pc = "returned"
    /\ pc' = "idle"
    /\ ref' = refAfter
    /\ refAfter' = refAfter
    /\ call' = NoCall
    /\ ret' = NoRet

Next ==
    \/ Construct_tfd \/ Construct_native
    \/ loc \/ iloc
    \/ pdf \/ log_pdf \/ cdf \/ ppf \/ sample
    \/ Keep \/ Drop

Spec == Init /\ [][Next]_vars

\* ------------------------------------------------------------ shared terms
\* a loc / iloc call has ended
IsSelection == pc = "returned" /\ call.op \in {"loc", "iloc"}

\* the call returned a table
ReturnedTable == ret.exc = "none" /\ ret.kind = "table"

\* the tables that exist in a state: the one called on, and the one returned
Tables == {t \in {ref, refAfter, ret.val} : t.cls \notin {"none", "DataFrame"}}

\* the per-entry parameter arrays of a table
ParamArrays(t) ==
    IF t.cls = "normal.Normal" THEN {t.params._mu, t.params._sigma}
    ELSE {t.params.loc, t.params.scale}

\* the broadcast shape of the parameters of a table, [exc, shape]
ParamShape(t) ==
    IF t.cls = "normal.Normal" THEN [exc |-> "none", shape |-> t.params._mu.shape]
    ELSE batch_shape(t.params)

\* isinstance(object of class cls, K)
IsInstance(cls, K) ==
    \/ cls = K
    \/ K = "_BaseTFProba" /\ cls = "tfd.Normal"

\* a key of two list selectors
IsListPair(key) ==
    key.tuple /\ Len(key.sel) = 2 /\ key.sel[1].t = "list" /\ key.sel[2].t = "list"

\* the elements of a sequence
Range(seq) == {seq[k] : k \in 1..Len(seq)}

NoDuplicates(seq) == \A i, j \in 1..Len(seq) : seq[i] = seq[j] => i = j

\* view[key] on what an earlier call returned: the next selection of a chain
Then(r, method, key) ==
    IF r.exc = "none" /\ r.kind = "table"
    THEN __getitem__(r.val, method, key)
    ELSE [isref |-> FALSE, calls |-> 0, rowidx |-> None, colidx |-> None]
         @@ Raise("AttributeError", NoTable)

\* the name of the indexer behind the view that was called
MethodOf(op) == IF op = "loc" THEN "_loc" ELSE "_iloc"

\* arr[i][j] of a 2-D array, i and j 0-based
At(arr, i, j) == arr.data[i * arr.shape[2] + j + 1]

SingleKey(sel) == [tuple |-> FALSE, sel |-> <<sel>>]
PairKey(rows, cols) == [tuple |-> TRUE, sel |-> <<rows, cols>>]

\* --------------------------------------------------------------------- C1
\* C1 (as claimed): every table that was constructed or returned by a
\* selection has parameters whose broadcast shape is its shape
\* (len(index), len(columns)), and each of its 2-D parameter arrays has
\* exactly that shape.
C1_ShapeInvariant ==
    \A t \in Tables :
        /\ ParamShape(t).exc = "none"
        /\ ParamShape(t).shape = shape(t)
        /\ \A arr \in ParamArrays(t) : ndim(arr) = 2 => arr.shape = shape(t)

\* --------------------------------------------------------------------- C2
\* C2: loc[:, :] and iloc[:, :] return the table itself: the same object,
\* hence the same labels and parameters, and the indexer (_loc / _iloc) is
\* not invoked.
C2_FullSelectionIdentity ==
    (IsSelection /\ call.key = PairKey(NoneSlice, NoneSlice)) =>
        /\ ReturnedTable
        /\ ret.isref
        /\ ret.val = ref
        /\ ret.calls = 0

C2_Witness ==
    /\ IsSelection
    /\ call.key = PairKey(NoneSlice, NoneSlice)
    /\ ret.isref
    /\ ref.cls = "tfd.Normal"
    /\ call.op = "iloc"

\* --------------------------------------------------------------------- C3
\* C3 (as claimed): a selection that returns, returns a table that is an
\* instance of the class of the table it was made on.
C3_SameKind ==
    (IsSelection /\ ret.exc = "none") =>
        ret.kind = "table" /\ IsInstance(ret.val.cls, ref.cls)

\* --------------------------------------------------------------------- C4
\* C4 (as claimed): for valid positions (one position i, or a list of them)
\* iloc selects a sub-table and loc with the labels at those positions
\* selects the same sub-table.
C4_LabelPositionEquivalence ==
    LET pos == call.key.sel[1]
        valid == \A k \in 1..Len(pos.v) : pos.v[k] >= 0 /\ pos.v[k] < Len(ref.index)
        labels == [pos EXCEPT !.v = [k \in 1..Len(pos.v) |-> ref.index[pos.v[k] + 1]]]
        byLabel == __getitem__(ref, "_loc", SingleKey(labels))
    IN (/\ IsSelection
        /\ call.op = "iloc"
        /\ ~call.key.tuple
        /\ pos.t \in {"scalar", "list"}
        /\ valid) =>
            /\ ReturnedTable
            /\ byLabel.exc = "none"
            /\ byLabel.kind = "table"
            /\ byLabel.val = ret.val

\* --------------------------------------------------------------------- C5
\* C5 (as claimed): iloc[R, C] returns a table exactly when iloc[R] followed
\* by iloc[:, C] does, and exactly when iloc[:, C] followed by iloc[R] does,
\* and then the three tables have the same labels and the same parameter
\* values.
C5_RowColumnCommute ==
    LET R == call.key.sel[1]
        C == call.key.sel[2]
        rowsFirst == Then(__getitem__(ref, "_iloc", SingleKey(R)), "_iloc",
                          PairKey(NoneSlice, C))
        colsFirst == Then(__getitem__(ref, "_iloc", PairKey(NoneSlice, C)), "_iloc",
                          SingleKey(R))
        same(r) == IF ReturnedTable
                   THEN r.exc = "none" /\ r.kind = "table" /\ r.val = ret.val
                   ELSE ~(r.exc = "none" /\ r.kind = "table")
    IN (IsSelection /\ call.op = "iloc" /\ IsListPair(call.key)) =>
            same(rowsFirst) /\ same(colsFirst)

\* --------------------------------------------------------------------- C6
\* C6 (as claimed): loc with a list of labels or a single label, one of which
\* is not a label of the axis it is applied to, raises and returns nothing.
\* (The claim names the exception, a KeyError / LookupError; that it is
\* raised at all is what is stated here.)
C6_MissingLabelRaises ==
    LET sels == call.key.sel
        missing(sel, axis) ==
            sel.t \in {"scalar", "list"} /\ \E x \in Range(sel.v) : x \notin Range(axis)
    IN (/\ IsSelection
        /\ call.op = "loc"
        /\ Len(sels) \in {1, 2}
        /\ \/ missing(sels[1], ref.index)
           \/ Len(sels) = 2 /\ missing(sels[2], ref.columns)) =>
            ret.exc # "none"

\* --------------------------------------------------------------------- C7
\* C7 (as claimed): the table Normal(mean=[[0,1],[2,3],[4,5]], sd=1) with
\* default labels has shape (3, 2), and [[1]] on it (iloc, and loc) returns
\* a table of shape (1, 2) with mean [[2, 3]] and a spread that is [[1, 1]]
\* once broadcast to the table.
C7_GaussianScenario ==
    LET isScenario(t) ==
            /\ t.cls = "tfd.Normal"
            /\ t.params.loc = Mat(3, 2, <<0, 1, 2, 3, 4, 5>>)
            /\ t.params.scale = Scalar(1)
            /\ t.index = RangeIndex(3)
            /\ t.columns = RangeIndex(2)
    IN /\ \A t \in Tables : isScenario(t) => shape(t) = <<3, 2>>
       /\ (IsSelection /\ isScenario(ref) /\ call.key = SingleKey(List(<<1>>))) =>
            /\ ReturnedTable
            /\ shape(ret.val) = <<1, 2>>
            /\ ret.val.params.loc = Mat(1, 2, <<2, 3>>)
            /\ BroadcastTo(ret.val.params.scale, <<1, 2>>) = Mat(1, 2, <<1, 1>>)

\* --------------------------------------------------------------------- C8
\* C8 (as claimed): no table has a repeated row label or a repeated column
\* label.
C8_UniqueLabels ==
    \A t \in Tables : NoDuplicates(t.index) /\ NoDuplicates(t.columns)

\* --------------------------------------------------------------------- C9
\* C9 (as claimed): a selection, whether it returns or raises, leaves the
\* table it is made on unchanged, and a table it returns is a new object,
\* never the table itself.
C9_NewTableAlways ==
    IsSelection => (refAfter = ref /\ (ReturnedTable => ~ret.isref))

\* C9 (amended): a selection leaves the table it is made on unchanged, and a
\* table it returns is a new object unless the key is [:, :], for which it is
\* the table itself.
C9_SourceUnchanged ==
    IsSelection =>
        /\ refAfter = ref
        /\ ReturnedTable => (ret.isref <=> call.key = PairKey(NoneSlice, NoneSlice))

C9_Witness ==
    /\ IsSelection
    /\ ReturnedTable
    /\ ~ret.isref
    /\ ret.val # ref
    /\ ret.val.index # ref.index
    /\ refAfter = ref

\* -------------------------------------------------------------------- C10
\* C10: a selection of columns only (iloc[:, C]) returns every parameter of
\* shape (n_rows,) with the values it has in the table selected from.
C10_OneDimUnderColumns ==
    (/\ IsSelection
     /\ call.op = "iloc"
     /\ call.key.tuple
     /\ Len(call.key.sel) = 2
     /\ is_noneslice(call.key.sel[1])
     /\ call.key.sel[2].t = "list"
     /\ ReturnedTable) =>
        \A name \in {"loc", "scale"} :
            ref.params[name].shape = <<Len(ref.index)>> =>
                ret.val.params[name] = ref.params[name]

C10_Witness ==
    /\ IsSelection
    /\ call.op = "iloc"
    /\ call.key = PairKey(NoneSlice, List(<<1>>))
    /\ ReturnedTable
    /\ ref.params.scale = Vec(<<1, 2>>)
    /\ Len(ref.index) = 2
    /\ ret.val.params.scale = Vec(<<1, 2>>)
    /\ ret.val.params.loc = Mat(2, 1, <<1, 3>>)
    /\ ret.val.columns # ref.columns

\* -------------------------------------------------------------------- C11
\* the call was a construction
IsConstruction == pc = "returned" /\ call.op \in {"tfd.Normal", "normal.Normal"}

\* C11: loc / iloc with a tuple key of more than two components raises
\* ValueError (the one error of __getitem__, whose fixed message reads
\* "there should be one or two keys") and the indexer of the table is not
\* invoked; nothing is returned.
C11_KeyArity ==
    (IsSelection /\ call.key.tuple /\ Len(call.key.sel) > 2) =>
        /\ ret.exc = "ValueError"
        /\ ret.kind = "none"
        /\ ret.calls = 0
        /\ refAfter = ref

C11_Witness ==
    /\ IsSelection
    /\ call.op = "loc"
    /\ ref.cls = "tfd.Normal"
    /\ call.key = [tuple |-> TRUE, sel |-> <<List(<<0>>), List(<<0>>), NoneSlice>>]
    /\ ret.exc = "ValueError"
    /\ ret.calls = 0

\* -------------------------------------------------------------------- C12
\* C12 (as claimed): for a table of either family, a loc / iloc call that
\* returns, returns a table, never another value such as NotImplemented.
C12_ViewsReturnTables ==
    \A family \in {"normal.Normal", "tfd.Normal"} :
        (IsSelection /\ ref.cls = family /\ ret.exc = "none") => ret.kind = "table"

\* -------------------------------------------------------------------- C13
\* C13 (as claimed): a construction without index and columns, with
\* parameters (scalars, 1-D or 2-D arrays) that have a common shape,
\* succeeds, and the labels of the table are range(n_rows) and
\* range(n_cols), (n_rows, n_cols) being the common shape where it is 2-D.
C13_DefaultLabels ==
    LET bs == BroadcastShapes(call.args.mean.shape, call.args.sd.shape)
    IN (/\ IsConstruction
        /\ call.args.index = None
        /\ call.args.columns = None
        /\ bs.exc = "none") =>
            /\ ReturnedTable
            /\ Len(bs.shape) = 2 =>
                    /\ ret.val.index = RangeIndex(bs.shape[1])
                    /\ ret.val.columns = RangeIndex(bs.shape[2])

\* -------------------------------------------------------------------- C14
\* a selector that iloc can apply to an axis: the open slice, or a list of
\* positions of the axis
ValidPositions(sel, axis) ==
    \/ is_noneslice(sel)
    \/ sel.t = "list" /\ \A k \in 1..Len(sel.v) : InBounds(sel.v[k], Len(axis))

\* C14 (as claimed): iloc with the empty list of positions on an axis (and
\* nothing, the open slice or a list of valid positions on the other) does
\* not raise and returns a table of length 0 on that axis.
C14_EmptySelection ==
    LET sels == call.key.sel
        emptyRows == sels[1] = List(<<>>)
        emptyCols == Len(sels) = 2 /\ sels[2] = List(<<>>)
    IN (/\ IsSelection
        /\ call.op = "iloc"
        /\ Len(sels) \in {1, 2}
        /\ emptyRows \/ emptyCols
        /\ ValidPositions(sels[1], ref.index)
        /\ Len(sels) = 2 => ValidPositions(sels[2], ref.columns)) =>
            /\ ReturnedTable
            /\ emptyRows => shape(ret.val)[1] = 0
            /\ emptyCols => shape(ret.val)[2] = 0

\* -------------------------------------------------------------------- C15
\* C15: a construction with parameters whose shapes have no common shape
\* raises ValueError, whether or not labels are given, and produces no table.
C15_BroadcastFailure ==
    (/\ IsConstruction
     /\ BroadcastShapes(call.args.mean.shape, call.args.sd.shape).exc # "none") =>
        /\ ret.exc = "ValueError"
        /\ ret.kind = "none"
        /\ ret.val = NoTable
        /\ Tables = {}

C15_Witness ==
    /\ IsConstruction
    /\ call.op = "tfd.Normal"
    /\ call.args.mean = Vec(<<0, 1>>)
    /\ call.args.sd = Vec(<<1, 2, 3>>)
    /\ call.args.index = List(<<1, 5>>)
    /\ ret.exc = "ValueError"

\* -------------------------------------------------------------------- C16
\* C16 (as claimed): sample(n) with n a positive integer returns a frame of
\* n blocks, keyed 0..n-1, each with the row labels of the table, under the
\* column labels of the table; sample(None) returns one frame with the row
\* and column labels of the table.
C16_SamplingShape ==
    LET n == call.n_samples.v[1]
        blocks == Flatten([k \in 1..n |->
                      [i \in 1..Len(ref.index) |-> <<k - 1, ref.index[i]>>]])
    IN (pc = "returned" /\ call.op = "sample") =>
        /\ call.n_samples = None =>
                /\ ret.exc = "none"
                /\ ret.kind = "frame"
                /\ ret.val.index = ref.index
                /\ ret.val.columns = ref.columns
        /\ (call.n_samples # None /\ n > 0) =>
                /\ ret.exc = "none"
                /\ ret.kind = "frame"
                /\ ret.val.index = blocks
                /\ ret.val.columns = ref.columns

\* -------------------------------------------------------------------- C17
\* C17 (as claimed): pdf, log_pdf, cdf and ppf with a query frame that has
\* a row label or a column label the table does not have raise ValueError.
C17_QueryLabelsChecked ==
    (/\ pc = "returned"
     /\ call.op \in {"pdf", "log_pdf", "cdf", "ppf"}
     /\ \/ ~(Range(call.x.index) \subseteq Range(ref.index))
        \/ ~(Range(call.x.columns) \subseteq Range(ref.columns))) =>
        ret.exc = "ValueError"

\* -------------------------------------------------------------------- C18
\* C18: the table T' that iloc[R, C] returns, R and C lists of positions in
\* any order and with repeats, has T'.index[k] = T.index[R[k]],
\* T'.columns[j] = T.columns[C[j]], and every 2-D parameter P of T is in T'
\* of shape (len(R), len(C)) with P'[k][j] = P[R[k]][C[j]].
C18_ElementWise ==
    LET R == call.key.sel[1].v
        C == call.key.sel[2].v
        r(k) == Wrap(R[k], Len(ref.index))
        c(j) == Wrap(C[j], Len(ref.columns))
    IN (IsSelection /\ call.op = "iloc" /\ IsListPair(call.key) /\ ReturnedTable) =>
        /\ Len(ret.val.index) = Len(R)
        /\ \A k \in 1..Len(R) : ret.val.index[k] = ref.index[r(k) + 1]
        /\ Len(ret.val.columns) = Len(C)
        /\ \A j \in 1..Len(C) : ret.val.columns[j] = ref.columns[c(j) + 1]
        /\ \A name \in {"loc", "scale"} :
                ndim(ref.params[name]) = 2 =>
                    /\ ret.val.params[name].shape = <<Len(R), Len(C)>>
                    /\ \A k \in 1..Len(R), j \in 1..Len(C) :
                            At(ret.val.params[name], k - 1, j - 1)
                                = At(ref.params[name], r(k), c(j))

C18_Witness ==
    /\ IsSelection
    /\ call.op = "iloc"
    /\ call.key = PairKey(List(<<1, 0>>), List(<<1, 1>>))
    /\ ReturnedTable
    /\ ref.params.loc = Mat(2, 2, <<0, 1, 2, 3>>)
    /\ ref.index = <<1, 5>>
    /\ ret.val.index = <<5, 1>>
    /\ ret.val.columns = <<0, 0>>
    /\ ret.val.params.loc = Mat(2, 2, <<3, 3, 1, 1>>)

\* -------------------------------------------------------------------- C19
\* C19: view[k], k not the open slice, invokes the indexer once with
\* rowidx=k, colidx=None, and view[k, :] does the same and gives the same
\* result (the same exception, or an equal table); view[:, c], c not the
\* open slice, invokes it once with rowidx=None, colidx=c.
C19_SingleKeyIsPair ==
    LET k == call.key.sel[1]
        pair == __getitem__(ref, MethodOf(call.op), PairKey(k, NoneSlice))
    IN /\ (IsSelection /\ ~call.key.tuple /\ ~is_noneslice(k)) =>
            /\ ret.calls = 1 /\ ret.rowidx = k /\ ret.colidx = None
            /\ pair.calls = 1 /\ pair.rowidx = k /\ pair.colidx = None
            /\ pair.exc = ret.exc /\ pair.kind = ret.kind /\ pair.val = ret.val
       /\ (/\ IsSelection /\ call.key.tuple /\ Len(call.key.sel) = 2
           /\ is_noneslice(k) /\ ~is_noneslice(call.key.sel[2])) =>
            ret.calls = 1 /\ ret.rowidx = None /\ ret.colidx = call.key.sel[2]

C19_Witness ==
    /\ IsSelection
    /\ call.op = "loc"
    /\ call.key = SingleKey(List(<<1>>))
    /\ ReturnedTable
    /\ ret.rowidx = List(<<1>>)
    /\ ret.colidx = None
    /\ ret.val.index = <<1>>
    /\ Len(ret.val.columns) = 2

\* -------------------------------------------------------------------- C20
\* C20: a selection that returns a table with one axis unconstrained (the
\* indexer was given None for it) keeps that axis whole: the labels of the
\* axis are those of the source in their order, and every 2-D parameter
\* has along that axis the entries of the source (each row of the result is
\* an entire row of the source when the columns are unconstrained, each
\* column an entire column when the rows are).  loc hands the None on to
\* _iloc: its result is that of _iloc with the positions of the labels on
\* the constrained axis and None on the other.
C20_UnconstrainedAxisKept ==
    LET src(name) == ref.params[name]
        res(name) == ret.val.params[name]
        rows(arr) == 0..(arr.shape[1] - 1)
        cols(arr) == 0..(arr.shape[2] - 1)
        twoD == {name \in {"loc", "scale"} : ndim(src(name)) = 2}
        rowpos == get_indexer_for(ref.index, ret.rowidx).idx
    IN (IsSelection /\ ReturnedTable /\ ret.calls = 1) =>
        /\ ret.colidx = None =>
            /\ ret.val.columns = ref.columns
            /\ \A name \in twoD :
                /\ res(name).shape[2] = src(name).shape[2]
                /\ \A k \in rows(res(name)) : \E i \in rows(src(name)) :
                       \A j \in cols(src(name)) :
                           At(res(name), k, j) = At(src(name), i, j)
            /\ call.op = "loc" =>
                   ret.val = _BaseTFProba_iloc(ref, rowpos, None).val
        /\ ret.rowidx = None =>
            /\ ret.val.index = ref.index
            /\ \A name \in twoD :
                /\ res(name).shape[1] = src(name).shape[1]
                /\ \A j \in cols(res(name)) : \E i \in cols(src(name)) :
                       \A k \in rows(src(name)) :
                           At(res(name), k, j) = At(src(name), k, i)

C20_Witness ==
    /\ IsSelection
    /\ call.op = "loc"
    /\ call.key = PairKey(List(<<1>>), NoneSlice)
    /\ ReturnedTable
    /\ ret.colidx = None
    /\ ref.index = <<1, 5>>
    /\ ref.columns = <<1, 0>>
    /\ ret.val.columns = <<1, 0>>
    /\ ret.val.index = <<1>>
    /\ ret.val.params.loc = Mat(1, 2, <<0, 1>>)

\* -------------------------------------------------------------------- C21
\* C21: in a position-based selection on a table that wraps a distribution,
\* the parameters validate_args, allow_nan_stats and name are not indexed:
\* the call returns a table whenever subsetting loc and scale, building the
\* distribution from them and taking the labels all succeed, and in the
\* table returned the reserved parameters have the values they have in the
\* source (their defaults) while loc and scale are the subset arrays.
C21_ReservedNotSubset ==
    LET sub(name) == subset_param(ref.params[name], ret.rowidx, ret.colidx)
        distr == tfd_Normal(sub("loc").arr, sub("scale").arr)
        restOK == /\ sub("loc").exc = "none"
                  /\ sub("scale").exc = "none"
                  /\ distr.exc = "none"
                  /\ subset_not_none(ref.index, ret.rowidx).exc = "none"
                  /\ subset_not_none(ref.columns, ret.colidx).exc = "none"
    IN (/\ IsSelection
        /\ call.op = "iloc"
        /\ ret.calls = 1
        /\ ref.cls \in {"tfd.Normal", "_BaseTFProba"}) =>
            /\ restOK => ReturnedTable
            /\ ReturnedTable =>
                /\ DOMAIN ret.val.params = DOMAIN ref.params
                /\ \A name \in reserved_names :
                       ret.val.params[name] = ref.params[name]
                /\ \A name \in (DOMAIN ref.params) \ reserved_names :
                       ret.val.params[name] = sub(name).arr

C21_Witness ==
    /\ IsSelection
    /\ call.op = "iloc"
    /\ call.key = SingleKey(List(<<1>>))
    /\ ReturnedTable
    /\ ref.params.scale = Vec(<<1, 2>>)
    /\ ret.val.params.loc = Mat(1, 2, <<2, 3>>)
    /\ ret.val.params.scale = Vec(<<2>>)
    /\ ret.val.params.validate_args = Scalar(0)
    /\ ret.val.params.allow_nan_stats = Scalar(1)
    /\ ret.val.params.name = Scalar(0)

\* -------------------------------------------------------------------- C22
\* [R1[i] for i in R2]: the positions of R1 at the positions R2
Compose(R1, R2) == [i \in 1..Len(R2) |-> R1[Wrap(R2[i], Len(R1)) + 1]]

\* C22 (as claimed): iloc[R1], R1 a list of valid positions of the rows,
\* returns a table, and for every list R2 of valid positions of the rows of
\* that table, iloc[R2] on it returns a table equal (row labels, column
\* labels, parameters) to the one iloc[[R1[i] for i in R2]] returns on the
\* source.
C22_Composition ==
    LET R1 == call.key.sel[1]
        valid2 == {R2 \in Selectors : R2.t = "list" /\ ValidPositions(R2, ret.val.index)}
        two(R2) == __getitem__(ret.val, "_iloc", SingleKey(R2))
        one(R2) == __getitem__(ref, "_iloc", SingleKey(List(Compose(R1.v, R2.v))))
    IN (/\ IsSelection
        /\ call.op = "iloc"
        /\ ~call.key.tuple
        /\ R1.t = "list"
        /\ ValidPositions(R1, ref.index)) =>
            /\ ReturnedTable
            /\ \A R2 \in valid2 :
                /\ two(R2).exc = "none" /\ two(R2).kind = "table"
                /\ one(R2).exc = "none" /\ one(R2).kind = "table"
                /\ two(R2).val.index = one(R2).val.index
                /\ two(R2).val.columns = one(R2).val.columns
                /\ two(R2).val.params = one(R2).val.params

\* -------------------------------------------------------------------- C23
\* C23: for a key of valid arity (a single key, or a tuple of two), the
\* view returns the table itself, without invoking the indexer, if and only
\* if the key is a tuple of two slices with start, stop and step all None.
\* For every other such key (a single key, also a single `:`; slices with
\* start and stop given, also when they cover the axis; a pair with at most
\* one open slice) the indexer is invoked exactly once and what it returns
\* or raises is the outcome of the call.
C23_FastPathOnlyOpenSlices ==
    LET openPair == /\ call.key.tuple
                    /\ call.key.sel[1] = NoneSlice
                    /\ call.key.sel[2] = NoneSlice
        res == getattr(ref, MethodOf(call.op), ret.rowidx, ret.colidx)
    IN (IsSelection /\ (~call.key.tuple \/ Len(call.key.sel) = 2)) =>
        /\ ret.isref <=> openPair
        /\ openPair => (ret.calls = 0 /\ ReturnedTable /\ ret.val = ref)
        /\ ~openPair =>
            /\ ret.calls = 1
            /\ ret.exc = res.exc /\ ret.kind = res.kind /\ ret.val = res.val

C23_Witness ==
    /\ IsSelection
    /\ call.op = "iloc"
    /\ call.key = PairKey(WholeAxisSlice, WholeAxisSlice)
    /\ ref.cls = "tfd.Normal"
    /\ ref.params.loc = Mat(2, 2, <<0, 1, 2, 3>>)
    /\ Len(ref.index) = 2
    /\ Len(ref.columns) = 2
    /\ ~ret.isref
    /\ ret.calls = 1
    /\ ret.rowidx = WholeAxisSlice
    /\ ret.exc = "TypeError"
====
